---- MODULE Spec2Model ----
(***************************************************************************)
(* State-machine model of the three network classes of src/models:         *)
(*   BackpropNeuralNet (backprop_neuralnet.py), SGDNeuralNet               *)
(*   (sgd_neuralnet.py) and ConvolutionNet (conv_net.py).                  *)
(*                                                                         *)
(* Conventions                                                             *)
(*  - A Python list is a function on 0..n-1, a dict a function on a set of *)
(*    key strings; indices are the source's 0-based indices.               *)
(*  - A numpy array is [shape, data]: data is the ravel()ed (row-major)    *)
(*    content, 0-based.  Numbers are integers counted in units of          *)
(*    h = 1e-4, the step of the numerical gradient; learning_rate is an    *)
(*    integer factor, the decay rates are fractions <<num, den>>.          *)
(*  - The forward/backward/loss mathematics lives in the package `common`, *)
(*    which is not part of src/models.  Its shape behaviour (which calls   *)
(*    raise, which shape comes out) is modelled exactly; its real-valued   *)
(*    results are inputs of the actions, drawn from small sets.            *)
(***************************************************************************)
EXTENDS Integers, Sequences, FiniteSets, TLC

VARIABLES
    variant,          \* which class was instantiated: "none", "backprop", "sgd", "conv"
    status,           \* "unconstructed", "ok" (object exists), "raised" (__init__ raised)
    cfg,              \* the hyper-parameter attributes set by __init__
    params,           \* self.params of BackpropNeuralNet / SGDNeuralNet
    layers,           \* self.layers of ConvolutionNet (each layer owns params and grads)
    optimizers,       \* self.optimizers of ConvolutionNet
    encoder,          \* self.one_hot_encoder_
    train_loss_list,  \* self.train_loss_list
    pc,               \* position inside fit: "idle", "select", "gradient", "update", "loss"
    i_iter,           \* loop variable of fit
    fitdata,          \* the (X, T) of the running fit, T already one-hot
    batch,            \* X_batch, T_batch of the current iteration
    grads,            \* local variable grads of fit (Backprop / SGD)
    ret,              \* the last finished call: its name, outcome and observed values
    hist              \* history: counts of calls and values remembered for the properties

vars == <<variant, status, cfg, params, layers, optimizers, encoder,
          train_loss_list, pc, i_iter, fitdata, batch, grads, ret, hist>>

(***************************************************************************)
(* Bounds of the model                                                     *)
(***************************************************************************)
MaxLayers == 3       \* n_layers of the plain networks ranges over 1..MaxLayers
MaxConvLayers == 2   \* len(layers) of ConvolutionNet ranges over 1..MaxConvLayers
MaxWidth == 2        \* layer widths range over 1..MaxWidth
MaxRows == 2         \* rows of a data set handed to fit / predict / accuracy
MaxCalls == 3        \* public calls made on a constructed network
MaxLabel == 3        \* category values of 1-D labels are 1..MaxLabel

(***************************************************************************)
(* Input sets                                                              *)
(***************************************************************************)
LossTypes == {"cross_entropy", "squared_error", "hinge"}
ActivationFunctions == {"sigmoid", "relu", "tanh"}
Solvers == {"sgd", "momentum", "adagrad", "rmsprop", "adam"}
GradVals == {-2, 0, 2}       \* entries of a computed gradient (units of h)
Seeds == {0, 1}              \* state of the random generator at a randn call
Half == <<1, 2>>             \* the decay rate 0.5, passed explicitly
\* the defaults of ConvolutionNet.__init__; epsilon as a fraction of the unit h
DefaultMomentum == <<9, 10>>
DefaultBeta1 == <<9, 10>>
DefaultBeta2 == <<999, 1000>>
DefaultEpsilon == <<1, 10000>>
EpsilonH == <<1, 1>>         \* epsilon = 1e-4 passed explicitly: one unit of h
SolverInputs == Solvers \cup {"foo"}
h == 1                       \* the finite-difference step, one unit

(***************************************************************************)
(* Python lists, dicts and numpy arrays                                    *)
(***************************************************************************)
PyLen(L) == Cardinality(DOMAIN L)
EmptyList == <<>>
EmptyDict == <<>>
ListOf(n, x) == [i \in 0..(n-1) |-> x]
PyAppend(L, x) == [i \in 0..PyLen(L) |-> IF i < PyLen(L) THEN L[i] ELSE x]
DictSet(d, k, v) == [x \in (DOMAIN d) \cup {k} |-> IF x = k THEN v ELSE d[x]]
\* L[l][k] = v
SetItem(L, l, k, v) == [L EXCEPT ![l] = DictSet(L[l], k, v)]
\* list indexing L[i]: a negative index counts from the end, IndexError outside
IndexError(L, i) == ~((IF i < 0 THEN i + PyLen(L) ELSE i) \in DOMAIN L)
PyIndex(L, i) == L[IF i < 0 THEN i + PyLen(L) ELSE i]

Size(shape) == IF Len(shape) = 1 THEN shape[1] ELSE shape[1] * shape[2]
Array(shape, data) == [shape |-> shape, data |-> data]
full(shape, v) == Array(shape, [i \in 0..(Size(shape)-1) |-> v])
zeros(shape) == full(shape, 0)
zeros_like(A) == zeros(A.shape)
\* np.random.randn(rows, cols): the draw is fixed by the generator state
randn(rows, cols, seed) ==
    Array(<<rows, cols>>, [i \in 0..(rows*cols-1) |-> ((i + seed) % 3) - 1])
\* np.eye(n)[idx] * h
h_vector(n, idx) == [i \in 0..(n-1) |-> IF i = idx THEN h ELSE 0]
\* elementwise A - c * B on arrays of one shape
AXPY(A, c, B) == Array(A.shape, [i \in DOMAIN A.data |-> A.data[i] - c * B.data[i]])

\* np.argmax of one row: the first index holding the maximum
argmax(row) ==
    CHOOSE i \in DOMAIN row :
        /\ \A j \in DOMAIN row : row[j] <= row[i]
        /\ \A j \in DOMAIN row : j < i => row[j] < row[i]

(***************************************************************************)
(* BackpropNeuralNet / SGDNeuralNet: parameters                            *)
(***************************************************************************)
NoParams == EmptyList      \* the attribute params before it is first assigned

\* for l in range(lo, hi): ps[l][key] = value(l)
RECURSIVE ForSetW(_, _, _, _, _)
ForSetW(ps, l, hi, c, seed) ==
    IF l >= hi THEN ps
    ELSE ForSetW(SetItem(ps, l, "W",
                   randn(c.hidden_size, c.hidden_size, seed + l)),
                 l + 1, hi, c, seed)

RECURSIVE ForSetB(_, _, _, _)
ForSetB(ps, l, hi, c) ==
    IF l >= hi THEN ps
    ELSE ForSetB(SetItem(ps, l, "b", zeros(<<c.hidden_size>>)), l + 1, hi, c)

\* _initialize_parameters, the assignments in source order.  weight_init_std
\* scales randn onto the grid of units.
InitializeParametersDense(c, seed) ==
    LET n  == c.n_layers
        p0 == ListOf(n, EmptyDict)
        p1 == SetItem(p0, 0, "W", randn(c.input_size, c.hidden_size, seed))
        p2 == ForSetW(p1, 1, n - 1, c, seed)
        p3 == SetItem(p2, n - 1, "W", randn(c.hidden_size, c.output_size, seed + n - 1))
        p4 == ForSetB(p3, 0, n - 1, c)
        p5 == SetItem(p4, n - 1, "b", zeros(<<c.output_size>>))
    IN  p5

(***************************************************************************)
(* One-hot encoding                                                        *)
(***************************************************************************)
\* A target T is 1-D, [ndim |-> 1, labels |-> list of categories], or 2-D,
\* [ndim |-> 2, rows |-> list of rows].
NoEncoder == [fitted |-> FALSE, categories |-> EmptyList]
Unique(labels) == {labels[i] : i \in DOMAIN labels}
\* OneHotEncoder().fit: categories_[0] is the sorted array of distinct values
RECURSIVE SortedList(_)
SortedList(S) ==
    IF S = {} THEN EmptyList
    ELSE LET m == CHOOSE x \in S : \A y \in S : y <= x
         IN  PyAppend(SortedList(S \ {m}), m)
OneHotEncoderFit(labels) == [fitted |-> TRUE, categories |-> SortedList(Unique(labels))]
\* transform(...).toarray(): one row per label, 1 in the column of its category
OneHotEncoderTransform(enc, labels) ==
    [r \in DOMAIN labels |->
        [k \in DOMAIN enc.categories |-> IF enc.categories[k] = labels[r] THEN 1 ELSE 0]]

\* _one_hot_encoding: returns the one-hot T and the encoder attribute afterwards
OneHotEncoding(enc, T) ==
    IF T.ndim = 1
    THEN LET e == OneHotEncoderFit(T.labels)
         IN  [T_onehot |-> OneHotEncoderTransform(e, T.labels), encoder |-> e]
    ELSE [T_onehot |-> T.rows, encoder |-> enc]

\* _one_hot_encoding_reverse: raises when the encoder was never fitted
\* (AttributeError) or a class index has no category (IndexError)
OneHotEncodingReverseRaises(enc, Y) ==
    \/ ~enc.fitted
    \/ \E r \in DOMAIN Y : IndexError(enc.categories, argmax(Y[r]))
OneHotEncodingReverse(enc, Y) ==
    [r \in DOMAIN Y |-> PyIndex(enc.categories, argmax(Y[r]))]

(***************************************************************************)
(* Forward pass (shape level)                                              *)
(***************************************************************************)
\* A data matrix X is [ids |-> list of sample ids, cols |-> number of features].
XShape(X) == <<PyLen(X.ids), X.cols>>
TShape(T_onehot) == <<PyLen(T_onehot), PyLen(T_onehot[0])>>

\* np.dot(Z, W) + b of forward_middle / forward_last_classification:
\* ValueError unless the inner dimensions agree and b broadcasts over the rows
AffineRaises(zshape, W, b) ==
    \/ zshape[2] # W.shape[1]
    \/ ~(b.shape[1] = W.shape[2] \/ b.shape[1] = 1 \/ W.shape[2] = 1)
AffineShape(zshape, W, b) ==
    <<zshape[1], IF W.shape[2] = 1 THEN b.shape[1] ELSE W.shape[2]>>

\* _predict_onehot: [raised, shape of Z_result, Z_intermediate, A_intermediate]
\* (the two lists hold the shapes of the cached arrays)
RECURSIVE ForwardMiddle(_, _, _, _, _)
ForwardMiddle(ps, l, hi, zshape, Zs) ==
    IF l >= hi THEN [raised |-> FALSE, shape |-> zshape, Z_intermediate |-> Zs]
    ELSE IF AffineRaises(zshape, ps[l]["W"], ps[l]["b"])
         THEN [raised |-> TRUE, shape |-> zshape, Z_intermediate |-> Zs]
         ELSE LET z == AffineShape(zshape, ps[l]["W"], ps[l]["b"])
              IN  ForwardMiddle(ps, l + 1, hi, z, PyAppend(Zs, z))

PredictOnehotDense(ps, n_layers, xshape) ==
    LET mid == ForwardMiddle(ps, 0, n_layers - 1, xshape, EmptyList)
        Wf  == ps[n_layers - 1]["W"]
        bf  == ps[n_layers - 1]["b"]
    IN  IF mid.raised \/ AffineRaises(mid.shape, Wf, bf)
        THEN [raised |-> TRUE, shape |-> <<0, 0>>,
              Z_intermediate |-> mid.Z_intermediate, A_intermediate |-> mid.Z_intermediate]
        ELSE [raised |-> FALSE, shape |-> AffineShape(mid.shape, Wf, bf),
              Z_intermediate |-> mid.Z_intermediate, A_intermediate |-> mid.Z_intermediate]

\* the probability matrices a forward pass of the given output shape can
\* return: per row, one class ahead of the others or all classes level
Scores(c) == {[k \in 0..(c-1) |-> IF k = j THEN 1 ELSE 0] : j \in 0..(c-1)}
                 \cup {[k \in 0..(c-1) |-> 1]}
Outputs(shape) == [0..(shape[1]-1) -> Scores(shape[2])]

\* _loss: the value is the loss function applied to the prediction made with
\* these parameters on this batch; it is kept as that application
LossRaises(ps, n_layers, X) == PredictOnehotDense(ps, n_layers, XShape(X)).raised
LossValue(ps, X, T) == [loss_of |-> ps, X |-> X.ids, T |-> T]

(***************************************************************************)
(* SGDNeuralNet: numerical gradient                                        *)
(***************************************************************************)
\* The loop of _numerical_gradient over idx.  ps is self.params, P the deep
\* copy taken on entry, grad the flat gradient so far.  g stands for
\* (fxh1 - fxh2) / (2*h).  A raising _loss leaves the loop at once, with ps
\* as it is then.
RECURSIVE NumericalGradientLoop(_, _, _, _, _, _, _, _, _)
NumericalGradientLoop(ps, n_layers, X, name, l, P, idx, g, grad) ==
    IF idx >= Size(P.shape)
    THEN [raised |-> FALSE, params |-> ps, grad |-> Array(P.shape, grad)]
    ELSE LET hv  == h_vector(Size(P.shape), idx)
             P1  == Array(P.shape, [i \in DOMAIN P.data |-> P.data[i] + hv[i]])
             ps1 == SetItem(ps, l, name, P1)
             P2  == Array(P.shape, [i \in DOMAIN P.data |-> P.data[i] - hv[i]])
             ps2 == SetItem(ps1, l, name, P2)
             ps3 == SetItem(ps2, l, name, P)
         IN  IF LossRaises(ps1, n_layers, X)
             THEN [raised |-> TRUE, params |-> ps1, grad |-> Array(P.shape, grad)]
             ELSE IF LossRaises(ps2, n_layers, X)
             THEN [raised |-> TRUE, params |-> ps2, grad |-> Array(P.shape, grad)]
             ELSE NumericalGradientLoop(ps3, n_layers, X, name, l, P, idx + 1, g,
                                        [grad EXCEPT ![idx] = g])

NumericalGradient(ps, n_layers, X, name, l, g) ==
    LET P == ps[l][name]       \* copy.deepcopy: a value of its own
    IN  NumericalGradientLoop(ps, n_layers, X, name, l, P, 0, g,
                              zeros(<<Size(P.shape)>>).data)

\* numerical_gradient_all: for each layer W, then b
RECURSIVE NumericalGradientAllLoop(_, _, _, _, _, _)
NumericalGradientAllLoop(ps, n_layers, X, l, g, gs) ==
    IF l >= n_layers
    THEN [raised |-> FALSE, params |-> ps, grads |-> gs]
    ELSE LET rW == NumericalGradient(ps, n_layers, X, "W", l, g)
         IN  IF rW.raised
             THEN [raised |-> TRUE, params |-> rW.params, grads |-> gs]
             ELSE LET rb == NumericalGradient(rW.params, n_layers, X, "b", l, g)
                  IN  IF rb.raised
                      THEN [raised |-> TRUE, params |-> rb.params,
                            grads |-> SetItem(gs, l, "W", rW.grad)]
                      ELSE NumericalGradientAllLoop(rb.params, n_layers, X, l + 1, g,
                               SetItem(SetItem(gs, l, "W", rW.grad), l, "b", rb.grad))

NumericalGradientAll(ps, n_layers, X, g) ==
    NumericalGradientAllLoop(ps, n_layers, X, 0, g, ListOf(n_layers, EmptyDict))

\* The parameter sets the loss is evaluated on during numerical_gradient_all,
\* in the order of the _loss calls (a raising call is the last one)
RECURSIVE NumericalGradientEvalsLoop(_, _, _, _, _, _, _, _)
NumericalGradientEvalsLoop(ps, n_layers, X, name, l, P, idx, evals) ==
    IF idx >= Size(P.shape) THEN [raised |-> FALSE, params |-> ps, evals |-> evals]
    ELSE LET hv  == h_vector(Size(P.shape), idx)
             P1  == Array(P.shape, [i \in DOMAIN P.data |-> P.data[i] + hv[i]])
             ps1 == SetItem(ps, l, name, P1)
             P2  == Array(P.shape, [i \in DOMAIN P.data |-> P.data[i] - hv[i]])
             ps2 == SetItem(ps1, l, name, P2)
             ps3 == SetItem(ps2, l, name, P)
         IN  IF LossRaises(ps1, n_layers, X)
             THEN [raised |-> TRUE, params |-> ps1, evals |-> PyAppend(evals, ps1)]
             ELSE IF LossRaises(ps2, n_layers, X)
             THEN [raised |-> TRUE, params |-> ps2,
                   evals |-> PyAppend(PyAppend(evals, ps1), ps2)]
             ELSE NumericalGradientEvalsLoop(ps3, n_layers, X, name, l, P, idx + 1,
                                             PyAppend(PyAppend(evals, ps1), ps2))
RECURSIVE NumericalGradientAllEvalsLoop(_, _, _, _, _)
NumericalGradientAllEvalsLoop(ps, n_layers, X, l, evals) ==
    IF l >= n_layers THEN evals
    ELSE LET rW == NumericalGradientEvalsLoop(ps, n_layers, X, "W", l, ps[l]["W"], 0, evals)
         IN  IF rW.raised THEN rW.evals
             ELSE LET rb == NumericalGradientEvalsLoop(rW.params, n_layers, X, "b", l,
                                                       rW.params[l]["b"], 0, rW.evals)
                  IN  IF rb.raised THEN rb.evals
                      ELSE NumericalGradientAllEvalsLoop(rb.params, n_layers, X, l + 1,
                                                         rb.evals)
NumericalGradientAllEvals(ps, n_layers, X) ==
    NumericalGradientAllEvalsLoop(ps, n_layers, X, 0, EmptyList)

(***************************************************************************)
(* BackpropNeuralNet: analytic gradient                                    *)
(***************************************************************************)
\* The helpers of common.backward_functions, at shape level: each gives
\* [raised, shape]
SoftmaxLossBackward(yshape, tshape) ==        \* (Y - T) / batch_size
    [raised |-> yshape # tshape, shape |-> yshape]
AffineBackwardBias(dA) == <<dA[2]>>           \* column sums of dA
AffineBackwardWeight(dA, zprev) ==            \* Z_prev^T . dA
    [raised |-> zprev[1] # dA[1], shape |-> <<zprev[2], dA[2]>>]
AffineBackwardZprev(dA, W) ==                 \* dA . W^T
    [raised |-> dA[2] # W.shape[2], shape |-> <<dA[1], W.shape[1]>>]
ActivationBackward(dZ, cached) ==             \* relu_backward / sigmoid_backward
    [raised |-> dZ # cached, shape |-> dZ]

Raised == [raised |-> TRUE, grads |-> EmptyList]

\* the loop over the hidden layers, l = n_layers-2 down to 0
RECURSIVE BackwardLoop(_, _, _, _, _, _, _)
BackwardLoop(ps, xshape, fw, l, dZ_prev, g, gs) ==
    IF l < 0 THEN [raised |-> FALSE, grads |-> gs]
    ELSE LET dA == ActivationBackward(dZ_prev, fw.A_intermediate[l])
             db == AffineBackwardBias(dA.shape)
             dW == IF l > 0 THEN AffineBackwardWeight(dA.shape, fw.Z_intermediate[l-1])
                            ELSE AffineBackwardWeight(dA.shape, xshape)
             dZ == IF l > 0 THEN AffineBackwardZprev(dA.shape, ps[l]["W"])
                            ELSE [raised |-> FALSE, shape |-> dZ_prev]
         IN  IF dA.raised \/ dW.raised \/ dZ.raised THEN Raised
             ELSE BackwardLoop(ps, xshape, fw, l - 1, dZ.shape, g,
                      SetItem(SetItem(gs, l, "b", full(db, g)), l, "W", full(dW.shape, g)))

\* gradient_backpropagation: [raised, grads]; g is the value of the entries
GradientBackpropagation(ps, n_layers, xshape, tshape, g) ==
    LET fw == PredictOnehotDense(ps, n_layers, xshape)
        gs == ListOf(n_layers, EmptyDict)
        dA == SoftmaxLossBackward(fw.shape, tshape)
        db == AffineBackwardBias(dA.shape)
    IN  IF fw.raised \/ dA.raised THEN Raised
        ELSE IF IndexError(fw.Z_intermediate, n_layers - 2) THEN Raised
        ELSE LET dW == AffineBackwardWeight(dA.shape, PyIndex(fw.Z_intermediate, n_layers - 2))
                 dZ == AffineBackwardZprev(dA.shape, ps[n_layers - 1]["W"])
             IN  IF dW.raised \/ dZ.raised THEN Raised
                 ELSE BackwardLoop(ps, xshape, fw, n_layers - 2, dZ.shape, g,
                          SetItem(SetItem(gs, n_layers - 1, "b", full(db, g)),
                                  n_layers - 1, "W", full(dW.shape, g)))

\* The order of the layer computations of one gradient_backpropagation: a
\* forward event when the forward function of layer l is called (its input
\* the output of layer `from`, -1 being X), a backward event when the
\* gradients of layer l are stored (its upstream gradient the one the
\* backward step of layer `from` produced, n_layers being the loss on Y and T)
Event(kind, layer, from) == [kind |-> kind, layer |-> layer, from |-> from]
ForwardTraceDense(ps, n_layers, xshape) ==
    LET mid == ForwardMiddle(ps, 0, n_layers - 1, xshape, EmptyList)
        n   == IF mid.raised THEN PyLen(mid.Z_intermediate) + 1 ELSE n_layers
    IN  [l \in 0..(n-1) |-> Event("forward", l, l - 1)]
RECURSIVE BackwardTraceLoop(_, _, _, _, _, _)
BackwardTraceLoop(ps, xshape, fw, l, dZ_prev, tr) ==
    IF l < 0 THEN tr
    ELSE LET dA == ActivationBackward(dZ_prev, fw.A_intermediate[l])
             dW == IF l > 0 THEN AffineBackwardWeight(dA.shape, fw.Z_intermediate[l-1])
                            ELSE AffineBackwardWeight(dA.shape, xshape)
             dZ == IF l > 0 THEN AffineBackwardZprev(dA.shape, ps[l]["W"])
                            ELSE [raised |-> FALSE, shape |-> dZ_prev]
         IN  IF dA.raised \/ dW.raised \/ dZ.raised THEN tr
             ELSE BackwardTraceLoop(ps, xshape, fw, l - 1, dZ.shape,
                                    PyAppend(tr, Event("backward", l, l + 1)))
GradientTraceDense(ps, n_layers, xshape, tshape) ==
    LET fw == PredictOnehotDense(ps, n_layers, xshape)
        tr == ForwardTraceDense(ps, n_layers, xshape)
        dA == SoftmaxLossBackward(fw.shape, tshape)
    IN  IF fw.raised \/ dA.raised THEN tr
        ELSE IF IndexError(fw.Z_intermediate, n_layers - 2) THEN tr
        ELSE LET dW == AffineBackwardWeight(dA.shape, PyIndex(fw.Z_intermediate, n_layers - 2))
                 dZ == AffineBackwardZprev(dA.shape, ps[n_layers - 1]["W"])
             IN  IF dW.raised \/ dZ.raised THEN tr
                 ELSE BackwardTraceLoop(ps, xshape, fw, n_layers - 2, dZ.shape,
                          PyAppend(tr, Event("backward", n_layers - 1, n_layers)))

(***************************************************************************)
(* BackpropNeuralNet / SGDNeuralNet: update                                *)
(***************************************************************************)
\* update_parameters: params[l][k] -= learning_rate * grads[l][k]
UpdateParametersDense(ps, n_layers, learning_rate, gs) ==
    [l \in DOMAIN ps |->
        IF l < n_layers
        THEN [k \in DOMAIN ps[l] |-> AXPY(ps[l][k], learning_rate, gs[l][k])]
        ELSE ps[l]]

\* the gradient set that is zero / g in every entry, shaped like ps
GradsLike(ps, g) == [l \in DOMAIN ps |-> [k \in DOMAIN ps[l] |-> full(ps[l][k].shape, g)]]

\* accuracy: np.sum(Y_test_label == T_test_label) / float(X_test.shape[0]),
\* kept as the fraction [num, den]
RECURSIVE SumEqual(_, _, _)
SumEqual(Y_label, T_label, r) ==
    IF r >= PyLen(Y_label) THEN 0
    ELSE (IF Y_label[r] = T_label[r] THEN 1 ELSE 0) + SumEqual(Y_label, T_label, r + 1)
\* an accuracy that divides by the number of columns of X_test
AccuracyValueByColumns(X_test, T_onehot, Y_test) ==
    LET Y_test_label == [r \in DOMAIN Y_test |-> argmax(Y_test[r])]
        T_test_label == [r \in DOMAIN T_onehot |-> argmax(T_onehot[r])]
    IN  [num |-> SumEqual(Y_test_label, T_test_label, 0), den |-> XShape(X_test)[2]]

AccuracyValue(X_test, T_onehot, Y_test) ==
    LET Y_test_label == [r \in DOMAIN Y_test |-> argmax(Y_test[r])]
        T_test_label == [r \in DOMAIN T_onehot |-> argmax(T_onehot[r])]
    IN  [num |-> SumEqual(Y_test_label, T_test_label, 0), den |-> XShape(X_test)[1]]

(***************************************************************************)
(* ConvolutionNet: layers (the layer classes are not part of src/models;   *)
(* a layer is the dense unit of the layer contract)                        *)
(***************************************************************************)
\* A layer object as handed to ConvolutionNet: input_shape is the width it
\* was declared with, units its own width; output_shape, params and grads
\* are set by its methods.
NewLayer(input_shape, units) ==
    [input_shape |-> input_shape, units |-> units, output_shape |-> 0,
     initialized_with |-> 0, params |-> EmptyDict, grads |-> EmptyDict]

\* layer.initialize_parameters(input_shape): allocates W (input x output,
\* scaled Gaussian) and b (zeros), sets output_shape
LayerInitializeParameters(layer, input_shape, seed) ==
    [layer EXCEPT !.output_shape = layer.units,
                  !.initialized_with = input_shape,
                  !.params = DictSet(DictSet(EmptyDict, "W",
                                 randn(input_shape, layer.units, seed)),
                                 "b", zeros(<<layer.units>>)),
                  !.grads = EmptyDict]

\* layer.forward(Z) at shape level
LayerForwardRaises(layer, zshape) ==
    AffineRaises(zshape, layer.params["W"], layer.params["b"])
LayerForwardShape(layer, zshape) ==
    AffineShape(zshape, layer.params["W"], layer.params["b"])

\* layer.backward(...): stores the layer's gradient set, shaped like its
\* parameters, as a side effect
LayerBackward(layer, g) ==
    [layer EXCEPT !.grads = [k \in DOMAIN layer.params |-> full(layer.params[k].shape, g)]]

(***************************************************************************)
(* ConvolutionNet: optimizers (common.optimizers is not part of            *)
(* src/models; the update rules are those of the optimizer bank)           *)
(***************************************************************************)
\* The optimizers compute in floating point.  The accumulators are kept as
\* exact fractions <<n, d>> (d > 0, lowest terms), the moments of g in units
\* of h and those of g*g in units of h*h; the parameters stay on the grid,
\* each step rounded to the nearest unit.  1.0 is 10^UnitDigits units of h.
UnitDigits == 4
Abs(x) == IF x < 0 THEN -x ELSE x
RECURSIVE GCD(_, _)
GCD(a, b) == IF b = 0 THEN a ELSE GCD(b, a % b)
Q(n, d) == LET c == GCD(Abs(n), d) IN <<n \div c, d \div c>>
QZero == <<0, 1>>
QInt(i) == <<i, 1>>
QNeg(x) == <<-x[1], x[2]>>
QMul(x, y) ==
    LET c1 == GCD(Abs(x[1]), y[2])
        c2 == GCD(Abs(y[1]), x[2])
    IN  Q((x[1] \div c1) * (y[1] \div c2), (x[2] \div c2) * (y[2] \div c1))
QAdd(x, y) ==
    LET c == GCD(x[2], y[2])
    IN  Q(x[1] * (y[2] \div c) + y[1] * (x[2] \div c), (x[2] \div c) * y[2])
QSub(x, y) == QAdd(x, QNeg(y))
QDiv(x, y) == QMul(x, IF y[1] > 0 THEN <<y[2], y[1]>> ELSE <<-y[2], -y[1]>>)
OneMinus(q) == Q(q[2] - q[1], q[2])
RECURSIVE Pow(_, _)
Pow(b, t) == IF t = 0 THEN 1 ELSE b * Pow(b, t - 1)
\* 1 - beta^t
OneMinusPow(beta, t) == Q(Pow(beta[2], t) - Pow(beta[1], t), Pow(beta[2], t))

\* quotient and remainder of n * 10^digits by d (n >= 0), by long division
RECURSIVE LongDiv(_, _, _, _)
LongDiv(q, r, d, digits) ==
    IF digits = 0 THEN [q |-> q, r |-> r]
    ELSE LongDiv(q * 10 + (r * 10) \div d, (r * 10) % d, d, digits - 1)
Scaled(n, d, digits) == LongDiv(n \div d, n % d, d, digits)
\* the integer nearest to x * 10^digits
RoundScaled(x, digits) ==
    LET s == Scaled(Abs(x[1]), x[2], digits)
        m == IF 2 * s.r >= x[2] THEN s.q + 1 ELSE s.q
    IN  IF x[1] < 0 THEN -m ELSE m

RECURSIVE ISqrtLoop(_, _, _)
ISqrtLoop(n, lo, hi) ==
    IF lo >= hi THEN lo
    ELSE LET mid == (lo + hi + 1) \div 2
         IN  IF mid * mid <= n THEN ISqrtLoop(n, mid, hi) ELSE ISqrtLoop(n, lo, mid - 1)
ISqrt(n) == ISqrtLoop(n, 0, IF n < 46340 THEN n ELSE 46340)
\* the number k of decimal digits at which x >= 0 is read for its square
\* root: x * 10^(2k) is below 10^9 and, for x >= 0.00001, at least 10^7
RECURSIVE SqrtDigitsLoop(_, _)
SqrtDigitsLoop(x, k) ==
    IF k < 6 /\ Scaled(x[1], x[2], 2 * k).q < 10000000 THEN SqrtDigitsLoop(x, k + 1) ELSE k
SqrtDigits(x) == SqrtDigitsLoop(x, 0)
\* np.sqrt(x) * 10^digits for x >= 0: the integer
\* root a of N = x * 10^(2k), improved by one Newton step to (a + N/a) / 2
SqrtScaled(x, digits) ==
    LET k == IF SqrtDigits(x) > digits THEN digits ELSE SqrtDigits(x)
        N == Scaled(x[1], x[2], 2 * k).q
        a == ISqrt(N)
    IN  IF a = 0 THEN 0 ELSE Scaled(a * a + N, 2 * a, digits - k).q

\* the optimizer objects: kind, hyper-parameters, accumulators acc[name][key], step t
SGD(lr) == [kind |-> "sgd", lr |-> lr, momentum |-> Half, beta_1 |-> Half,
            beta_2 |-> Half, epsilon |-> QZero, acc |-> EmptyDict, t |-> 0]
Momentum(lr, momentum) == [SGD(lr) EXCEPT !.kind = "momentum", !.momentum = momentum]
AdaGrad(lr, epsilon) == [SGD(lr) EXCEPT !.kind = "adagrad", !.epsilon = epsilon]
RMSprop(lr, beta_2, epsilon) ==
    [SGD(lr) EXCEPT !.kind = "rmsprop", !.beta_2 = beta_2, !.epsilon = epsilon]
Adam(lr, beta_1, beta_2, epsilon) ==
    [SGD(lr) EXCEPT !.kind = "adam", !.beta_1 = beta_1, !.beta_2 = beta_2,
                    !.epsilon = epsilon]

AccumulatorNames(kind) ==
    CASE kind = "sgd" -> {}
      [] kind = "momentum" -> {"v"}
      [] kind = "adagrad" -> {"h"}
      [] kind = "rmsprop" -> {"h"}
      [] kind = "adam" -> {"m", "v"}

\* an accumulator of the shape of P, all zero
QZerosLike(P) == Array(P.shape, [i \in DOMAIN P.data |-> QZero])

\* optimizer.initialize_opt_params(params): accumulators of the parameters'
\* shapes, all zero; the step counter at zero
InitializeOptParams(opt, ps) ==
    [opt EXCEPT !.acc = [a \in AccumulatorNames(opt.kind) |->
                            [k \in DOMAIN ps |-> QZerosLike(ps[k])]],
                !.t = 0]

\* a momentum that forgets the velocity it finds
MomentumVStateless(opt, v, g) == QInt(-(opt.lr * g))
\* the update rules on one entry: g the gradient, the accumulator before
MomentumV(opt, v, g) == QSub(QMul(opt.momentum, v), QInt(opt.lr * g))
AdaGradH(opt, a, g) == QAdd(a, QInt(g * g))
RMSpropH(opt, a, g) ==
    QAdd(QMul(opt.beta_2, a), QMul(OneMinus(opt.beta_2), QInt(g * g)))
AdamM(opt, m, g) == QAdd(QMul(opt.beta_1, m), QMul(OneMinus(opt.beta_1), QInt(g)))
AdamV(opt, v, g) == QAdd(QMul(opt.beta_2, v), QMul(OneMinus(opt.beta_2), QInt(g * g)))
\* an Adam without the bias correction
HatUncorrected(x, beta, t) == x
\* bias correction x / (1 - beta^t)
Hat(x, beta, t) == QDiv(x, OneMinusPow(beta, t))
\* the number of decimal digits the denominator sqrt(sq) + epsilon is kept
\* to: as many (2 to 9) as leave b times the denominator, e in hundredths,
\* below 2 * 10^8
RECURSIVE DenominatorDigitsLoop(_, _, _)
DenominatorDigitsLoop(b, e, k) ==
    IF k > 2 /\ b * e > 200000000 \div Pow(10, k - 2)
    THEN DenominatorDigitsLoop(b, e, k - 1) ELSE k
DenominatorDigits(opt, b, sq) ==
    DenominatorDigitsLoop(b, SqrtScaled(sq, 2) + RoundScaled(opt.epsilon, 2) + 1, 9)
\* natural numbers beyond 32 bits: the base-10^4 digits, the lowest first,
\* no leading zero digit (zero is the empty sequence).  Each operator takes
\* its operands as values (the bound x, y range over the one value each)
RECURSIVE BigOf(_)
BigOf(n) == IF n = 0 THEN <<>> ELSE <<n % 10000>> \o BigOf(n \div 10000)
Digit(a, i) == IF i > Len(a) THEN 0 ELSE a[i]
\* a + b from digit i on, c carried in
RECURSIVE BigPlusFrom(_, _, _, _)
BigPlusFrom(a, b, c, i) ==
    IF i > Len(a) /\ i > Len(b) THEN BigOf(c)
    ELSE CHOOSE r \in {<<v % 10000>> \o BigPlusFrom(a, b, v \div 10000, j) :
                          v \in {Digit(a, i) + Digit(b, i) + c}, j \in {i + 1}} : TRUE
BigPlus(a, b) == CHOOSE r \in {BigPlusFrom(x, y, 0, 1) : x \in {a}, y \in {b}} : TRUE
\* a times the digit m from digit i on, c carried in
RECURSIVE BigTimesDigit(_, _, _, _)
BigTimesDigit(a, m, c, i) ==
    IF i > Len(a) THEN BigOf(c)
    ELSE CHOOSE r \in {<<v % 10000>> \o BigTimesDigit(a, m, v \div 10000, j) :
                          v \in {a[i] * m + c}, j \in {i + 1}} : TRUE
\* a times the digits of b from digit i on
RECURSIVE BigTimesFrom(_, _, _)
BigTimesFrom(a, b, i) ==
    IF i > Len(b) THEN <<>>
    ELSE CHOOSE r \in {BigPlus(IF b[i] = 0 THEN <<>> ELSE BigTimesDigit(a, b[i], 0, 1),
                               IF i = Len(b) THEN <<>> ELSE <<0>> \o BigTimesFrom(a, b, j)) :
                          j \in {i + 1}} : TRUE
BigTimes(a, b) ==
    CHOOSE r \in {IF x = <<>> THEN <<>> ELSE BigTimesFrom(x, y, 1) : x \in {a}, y \in {b}} : TRUE
\* a <= b, decided at the highest digit where they differ, from digit i down
RECURSIVE BigLeqFrom(_, _, _)
BigLeqFrom(a, b, i) ==
    IF i = 0 THEN TRUE
    ELSE IF a[i] # b[i] THEN a[i] < b[i] ELSE BigLeqFrom(a, b, i - 1)
BigLeq(a, b) ==
    \E x \in {a}, y \in {b} :
        IF Len(x) # Len(y) THEN Len(x) < Len(y) ELSE BigLeqFrom(x, y, Len(x))
RECURSIVE BigTrim(_)
BigTrim(a) == IF a # <<>> /\ a[Len(a)] = 0 THEN BigTrim(SubSeq(a, 1, Len(a) - 1)) ELSE a
\* a - b for a >= b from digit i on, c borrowed, the leading zero digits kept
RECURSIVE BigMinusFrom(_, _, _, _)
BigMinusFrom(a, b, c, i) ==
    IF i > Len(a) THEN <<>>
    ELSE CHOOSE r \in {<<IF v < 0 THEN v + 10000 ELSE v>>
                           \o BigMinusFrom(a, b, IF v < 0 THEN 1 ELSE 0, j) :
                          v \in {a[i] - Digit(b, i) - c}, j \in {i + 1}} : TRUE
BigMinus(a, b) == CHOOSE r \in {BigTrim(BigMinusFrom(x, y, 0, 1)) : x \in {a}, y \in {b}} : TRUE
BigSquare(a) == CHOOSE r \in {BigTimes(x, x) : x \in {a}} : TRUE

\* c / (sqrt(sq) + epsilon) >= n - 1/2 for c = a / b > 0, n >= 1, in units of
\* h, decided without rounding: with t = n - 1/2 it is c - t * epsilon >=
\* t * sqrt(sq), both sides squared when the left one is not negative
StepReaches(a, b, sq, epsilon, n) ==
    \E X \in {BigTimes(BigTimes(BigOf(2 * Pow(10, UnitDigits)), BigOf(a)), BigOf(epsilon[2]))},
       Y \in {BigTimes(BigTimes(BigOf(2 * n - 1), BigOf(epsilon[1])), BigOf(b))},
       V \in {BigTimes(BigTimes(BigOf(2 * n - 1), BigOf(b)), BigOf(epsilon[2]))} :
        /\ BigLeq(Y, X)
        /\ BigLeq(BigTimes(BigSquare(V), BigOf(sq[1])),
                  BigTimes(BigSquare(BigMinus(X, Y)), BigOf(sq[2])))
\* the integer nearest to c / (sqrt(sq) + epsilon), found from the estimate n
RECURSIVE StepNearest(_, _, _, _, _)
StepNearest(a, b, sq, epsilon, n) ==
    IF StepReaches(a, b, sq, epsilon, n + 1)
    THEN CHOOSE m \in {StepNearest(a, b, sq, epsilon, n1) : n1 \in {n + 1}} : TRUE
    ELSE IF n > 0 /\ ~StepReaches(a, b, sq, epsilon, n)
    THEN CHOOSE m \in {StepNearest(a, b, sq, epsilon, n1) : n1 \in {n - 1}} : TRUE
    ELSE n
\* lr * num / (sqrt(sq) + epsilon), in units of h, to the nearest unit: an
\* estimate from the denominator in fixed point, then the nearest integer
StepSize(opt, num, sq) ==
    LET c == QMul(QInt(opt.lr), num)
        k == DenominatorDigits(opt, c[2], sq)
        D == SqrtScaled(sq, k) + RoundScaled(opt.epsilon, k)
    IN  IF c[1] = 0 THEN 0
        ELSE CHOOSE m \in {(IF c[1] < 0 THEN -1 ELSE 1) * StepNearest(a, c[2], sq, opt.epsilon, n) :
                               a \in {Abs(c[1])},
                               n \in {IF D = 0 THEN 0
                                      ELSE Abs(RoundScaled(Q(c[1], c[2] * D), UnitDigits + k))}} : TRUE
\* the steps of one update, one for each pair <<num, sq>> of its entries
StepTable(opt, pairs) == [pr \in pairs |-> StepSize(opt, pr[1], pr[2])]
\* p - lr * num / (sqrt(sq) + epsilon)
ScaledStep(steps, p, num, sq) == p - steps[<<num, sq>>]

\* the accumulator `name` advanced by one update with gradients gs
Advance(opt, name, ps, gs) ==
    [k \in DOMAIN ps |->
        Array(ps[k].shape,
              [i \in DOMAIN ps[k].data |->
                  LET a == opt.acc[name][k].data[i]
                      g == gs[k].data[i]
                  IN  CASE opt.kind = "momentum" -> MomentumV(opt, a, g)
                        [] opt.kind = "adagrad" -> AdaGradH(opt, a, g)
                        [] opt.kind = "rmsprop" -> RMSpropH(opt, a, g)
                        [] opt.kind = "adam" /\ name = "m" -> AdamM(opt, a, g)
                        [] opt.kind = "adam" /\ name = "v" -> AdamV(opt, a, g)])]

\* numerator and squared denominator of the step of entry i of key k, from
\* the advanced accumulators acc1 and step counter t1
StepPair(opt, gs, acc1, t1, k, i) ==
    IF opt.kind = "adam"
    THEN <<Hat(acc1["m"][k].data[i], opt.beta_1, t1), Hat(acc1["v"][k].data[i], opt.beta_2, t1)>>
    ELSE <<QInt(gs[k].data[i]), acc1["h"][k].data[i]>>
\* the parameters after the update, the accumulators and steps being known
ApplySteps(opt, ps, gs, acc1, t1, steps) ==
    [k \in DOMAIN ps |->
        Array(ps[k].shape,
              [i \in DOMAIN ps[k].data |->
                  LET p == ps[k].data[i]
                      g == gs[k].data[i]
                  IN  CASE opt.kind = "sgd" -> p - opt.lr * g
                        [] opt.kind = "momentum" -> p + RoundScaled(acc1["v"][k].data[i], 0)
                        [] OTHER -> ScaledStep(steps, p, StepPair(opt, gs, acc1, t1, k, i)[1],
                                               StepPair(opt, gs, acc1, t1, k, i)[2])])]
\* the update once the accumulators are advanced: the steps are computed
\* once for the whole update (steps ranges over the one table)
OptimizerUpdateWith(opt, ps, gs, acc1, t1) ==
    CHOOSE u \in {[params |-> ApplySteps(opt, ps, gs, acc1, t1, steps),
                   opt |-> [opt EXCEPT !.acc = acc1, !.t = t1]] :
                     steps \in {StepTable(opt,
                         IF opt.kind \in {"adagrad", "rmsprop", "adam"}
                         THEN UNION {{StepPair(opt, gs, acc1, t1, k, i) :
                                         i \in DOMAIN ps[k].data} : k \in DOMAIN ps}
                         ELSE {})}} : TRUE
\* optimizer.update(params, grads): [params, opt] afterwards; the
\* accumulators are advanced first (acc1 ranges over the one result), Adam
\* counts the step
OptimizerUpdate(opt, ps, gs) ==
    CHOOSE u \in {OptimizerUpdateWith(opt, ps, gs, acc1,
                                      IF opt.kind = "adam" THEN opt.t + 1 ELSE opt.t) :
                     acc1 \in {[name \in DOMAIN opt.acc |-> Advance(opt, name, ps, gs)]}} : TRUE

\* optimizer.update on a layer that holds no gradients: the lookup of the
\* first gradient raises; Adam has counted the step by then
OptimizerUpdateRaising(opt) ==
    IF opt.kind = "adam" THEN [opt EXCEPT !.t = opt.t + 1] ELSE opt

(***************************************************************************)
(* ConvolutionNet                                                          *)
(***************************************************************************)
\* _initialize_optimizers: self.optimizers = [], then per layer an optimizer
\* of the solver's class is appended (the if/elif chain has no else: any
\* other solver appends nothing) and self.optimizers[l] is initialized from
\* that layer's parameters, an IndexError when the list has no entry l.
\* `old` is the list held before the call.  Gives [raised, optimizers].
RECURSIVE InitializeOptimizersLoop(_, _, _, _)
InitializeOptimizersLoop(opts, ls, l, c) ==
    IF l >= PyLen(ls) THEN [raised |-> FALSE, optimizers |-> opts]
    ELSE LET appended ==
                 IF c.solver = "sgd" THEN PyAppend(opts, SGD(c.learning_rate))
                 ELSE IF c.solver = "momentum"
                      THEN PyAppend(opts, Momentum(c.learning_rate, c.momentum))
                 ELSE IF c.solver = "adagrad"
                      THEN PyAppend(opts, AdaGrad(c.learning_rate, c.epsilon))
                 ELSE IF c.solver = "rmsprop"
                      THEN PyAppend(opts, RMSprop(c.learning_rate, c.beta_2, c.epsilon))
                 ELSE IF c.solver = "adam"
                      THEN PyAppend(opts, Adam(c.learning_rate, c.beta_1, c.beta_2,
                                               c.epsilon))
                 ELSE opts
         IN  IF l \notin DOMAIN appended
             THEN [raised |-> TRUE, optimizers |-> appended]
             ELSE InitializeOptimizersLoop(
                      [appended EXCEPT ![l] = InitializeOptParams(appended[l], ls[l].params)],
                      ls, l + 1, c)

\* an _initialize_optimizers that keeps appending to the list it finds
InitializeOptimizersKeepList(old, ls, c) == InitializeOptimizersLoop(old, ls, 0, c)

InitializeOptimizers(old, ls, c) == InitializeOptimizersLoop(EmptyList, ls, 0, c)

\* _initialize_parameters: the layers in list order, layer 0 with its own
\* input_shape, layer l > 0 with the output_shape of layer l-1; then the
\* optimizers.  Gives [raised, layers, optimizers].
RECURSIVE InitializeLayersLoop(_, _, _)
InitializeLayersLoop(ls, l, seed) ==
    IF l >= PyLen(ls) THEN ls
    ELSE LET input_shape == IF l = 0 THEN ls[l].input_shape ELSE ls[l-1].output_shape
         IN  InitializeLayersLoop(
                 [ls EXCEPT ![l] = LayerInitializeParameters(ls[l], input_shape, seed + l)],
                 l + 1, seed)

\* an _initialize_parameters that reads the output_shape the previous layer
\* had before the pass
InitializeParametersConvStale(ls, opts, c, seed) ==
    LET ls1 == [l \in DOMAIN ls |->
                   LayerInitializeParameters(ls[l],
                       IF l = 0 THEN ls[l].input_shape ELSE ls[l-1].output_shape,
                       seed + l)]
    IN  [layers |-> ls1] @@ InitializeOptimizers(opts, ls1, c)

InitializeParametersConv(ls, opts, c, seed) ==
    LET ls1 == InitializeLayersLoop(ls, 0, seed)
    IN  [layers |-> ls1] @@ InitializeOptimizers(opts, ls1, c)

\* _predict_onehot: every layer's forward in list order; [raised, shape]
RECURSIVE PredictOnehotConv(_, _, _)
PredictOnehotConv(ls, l, zshape) ==
    IF l >= PyLen(ls) THEN [raised |-> FALSE, shape |-> zshape]
    ELSE IF LayerForwardRaises(ls[l], zshape) THEN [raised |-> TRUE, shape |-> <<0, 0>>]
    ELSE PredictOnehotConv(ls, l + 1, LayerForwardShape(ls[l], zshape))

\* gradient_backpropagation: forward, then backward from layer n_layers-1
\* down to layer 0; returns nothing, the gradients stay in the layers
RECURSIVE BackwardConvLoop(_, _, _)
BackwardConvLoop(ls, l, g) ==
    IF l < 0 THEN ls
    ELSE BackwardConvLoop([ls EXCEPT ![l] = LayerBackward(ls[l], g)], l - 1, g)

GradientBackpropagationConv(ls, n_layers, xshape, tshape, g) ==
    LET fw == PredictOnehotConv(ls, 0, xshape)
    IN  IF fw.raised \/ SoftmaxLossBackward(fw.shape, tshape).raised
        THEN [raised |-> TRUE, layers |-> ls]
        ELSE [raised |-> FALSE,
              layers |-> BackwardConvLoop(
                             [ls EXCEPT ![n_layers-1] = LayerBackward(ls[n_layers-1], g)],
                             n_layers - 2, g)]

\* the order of the layer calls of gradient_backpropagation
RECURSIVE ForwardTraceConv(_, _, _, _)
ForwardTraceConv(ls, l, zshape, tr) ==
    IF l >= PyLen(ls) THEN tr
    ELSE IF LayerForwardRaises(ls[l], zshape)
    THEN PyAppend(tr, Event("forward", l, l - 1))
    ELSE ForwardTraceConv(ls, l + 1, LayerForwardShape(ls[l], zshape),
                          PyAppend(tr, Event("forward", l, l - 1)))
RECURSIVE BackwardTraceConv(_, _)
BackwardTraceConv(l, tr) ==
    IF l < 0 THEN tr ELSE BackwardTraceConv(l - 1, PyAppend(tr, Event("backward", l, l + 1)))
GradientTraceConv(ls, n_layers, xshape, tshape) ==
    LET fw == PredictOnehotConv(ls, 0, xshape)
        tr == ForwardTraceConv(ls, 0, xshape, EmptyList)
    IN  IF fw.raised THEN tr
        ELSE IF SoftmaxLossBackward(fw.shape, tshape).raised
        THEN PyAppend(tr, Event("backward", n_layers - 1, n_layers))
        ELSE BackwardTraceConv(n_layers - 2,
                               PyAppend(tr, Event("backward", n_layers - 1, n_layers)))

\* update_parameters: optimizers[l].update(layer.params, layer.grads) for
\* every layer; [raised, layers, optimizers, seen], seen being the optimizer
\* objects the updates were applied to.  A layer without gradients (no
\* backward pass yet) makes update raise.
RECURSIVE UpdateParametersConvLoop(_, _, _)
UpdateParametersConvLoop(ls, opts, l) ==
    IF l >= PyLen(ls) THEN [raised |-> FALSE, layers |-> ls, optimizers |-> opts]
    ELSE IF DOMAIN ls[l].grads # DOMAIN ls[l].params
    THEN [raised |-> TRUE, layers |-> ls,
          optimizers |-> [opts EXCEPT ![l] = OptimizerUpdateRaising(opts[l])]]
    ELSE LET u == OptimizerUpdate(opts[l], ls[l].params, ls[l].grads)
         IN  UpdateParametersConvLoop([ls EXCEPT ![l].params = u.params],
                                      [opts EXCEPT ![l] = u.opt], l + 1)

\* an update_parameters that rebuilds the optimizers before it uses them
UpdateParametersConvReset(ls, opts, c) ==
    [seen |-> InitializeOptimizers(opts, ls, c).optimizers]
        @@ UpdateParametersConvLoop(ls, InitializeOptimizers(opts, ls, c).optimizers, 0)

UpdateParametersConv(ls, opts, c) ==
    [seen |-> opts] @@ UpdateParametersConvLoop(ls, opts, 0)

\* the parameter sets of the network, whichever class it is
ParamsOf(v, ps, ls) == IF v = "conv" THEN [l \in DOMAIN ls |-> ls[l].params] ELSE ps
Params == ParamsOf(variant, params, layers)
Shapes(ps) == [l \in DOMAIN ps |-> [k \in DOMAIN ps[l] |-> ps[l][k].shape]]

(***************************************************************************)
(* Inputs of the calls                                                     *)
(***************************************************************************)
OneHotRows(c) == {[k \in 0..(c-1) |-> IF k = j THEN 1 ELSE 0] : j \in 0..(c-1)}
Targets1D(r) == {[ndim |-> 1, labels |-> L, rows |-> EmptyList] :
                    L \in [0..(r-1) -> 1..MaxLabel]}
Targets2D(r, c) == {[ndim |-> 2, labels |-> EmptyList, rows |-> R] :
                    R \in [0..(r-1) -> OneHotRows(c)]}
\* the number of classes __init__ reads off T
OutputSize(T) == IF T.ndim = 2 THEN PyLen(T.rows[0]) ELSE Cardinality(Unique(T.labels))
\* a data matrix of r samples with the given number of features
DataX(r, cols) == [ids |-> [i \in 0..(r-1) |-> i], cols |-> cols]
\* targets of r rows that fit a network of `out` classes
TargetsFor(r, out) == {T \in Targets1D(r) : OutputSize(T) = out} \cup Targets2D(r, out)
LayerLists(Widths, n) == [0..(n-1) -> {NewLayer(i, u) : i \in Widths, u \in Widths}]

\* the width of the input, and of the output, the network was built for
InputWidth == IF variant = "conv" THEN layers[0].input_shape ELSE cfg.input_size
OutputWidth == IF variant = "conv" THEN layers[PyLen(layers)-1].units ELSE cfg.output_size
NLayers == IF variant = "conv" THEN PyLen(layers) ELSE cfg.n_layers

NoCfg == [input_size |-> 0, output_size |-> 0, hidden_size |-> 0, n_layers |-> 0,
          learning_rate |-> 0, batch_size |-> 0, n_iter |-> 0, loss_type |-> "",
          activation_function |-> "", solver |-> "", momentum |-> Half,
          beta_1 |-> Half, beta_2 |-> Half, epsilon |-> QZero]
NoRet == [op |-> "", raised |-> FALSE, value |-> <<>>, before |-> <<>>, aux |-> <<>>]
NoBatch == [X |-> DataX(0, 0), T |-> EmptyList]
NoHist == [calls |-> 0, n_init |-> 0, first_shapes |-> <<>>,
           fitted_1d |-> FALSE, fit_categories |-> EmptyList]

Init ==
    /\ variant = "none"
    /\ status = "unconstructed"
    /\ cfg = NoCfg
    /\ params = NoParams
    /\ layers = EmptyList
    /\ optimizers = EmptyList
    /\ encoder = NoEncoder
    /\ train_loss_list = EmptyList
    /\ pc = "idle"
    /\ i_iter = 0
    /\ fitdata = NoBatch
    /\ batch = NoBatch
    /\ grads = EmptyList
    /\ ret = NoRet
    /\ hist = NoHist

(***************************************************************************)
(* __init__                                                                *)
(***************************************************************************)
\* a constructor that forgets the check of activation_function
ConfigErrorLossOnly(v, loss_type, activation_function) ==
    loss_type \notin {"cross_entropy", "squared_error"}

\* the checks of __init__ that raise: loss_type in all three classes,
\* activation_function in BackpropNeuralNet and SGDNeuralNet
ConfigError(v, loss_type, activation_function) ==
    \/ loss_type \notin {"cross_entropy", "squared_error"}
    \/ v \in {"backprop", "sgd"} /\ activation_function \notin {"sigmoid", "relu"}

\* BackpropNeuralNet.__init__ / SGDNeuralNet.__init__
ConstructDense(v, input_size, T, hidden_size, n_layers, batch_size, n_iter, loss_type, activation_function, seed) ==
    /\ status = "unconstructed"
    /\ variant' = v
    /\ cfg' = [NoCfg EXCEPT !.input_size = input_size, !.output_size = OutputSize(T),
                            !.hidden_size = hidden_size, !.n_layers = n_layers,
                            !.learning_rate = 1, !.batch_size = batch_size,
                            !.n_iter = n_iter, !.loss_type = loss_type,
                            !.activation_function = activation_function]
    /\ IF ConfigError(v, loss_type, activation_function)
       THEN /\ status' = "raised"
            /\ params' = params
            /\ hist' = hist
       ELSE /\ status' = "ok"
            /\ params' = InitializeParametersDense(cfg', seed)
            /\ hist' = [hist EXCEPT !.n_init = 1, !.first_shapes = Shapes(params')]
    /\ ret' = [NoRet EXCEPT !.op = "__init__", !.raised = (status' = "raised")]
    /\ UNCHANGED <<layers, optimizers, encoder, train_loss_list, pc, i_iter,
                   fitdata, batch, grads>>

\* ConvolutionNet.__init__; ls are the layer objects handed in.  The
\* hyper-parameters are stored first; n_layers is assigned last, only when
\* neither the loss_type check nor _initialize_parameters raised.  A solver
\* outside the five makes _initialize_optimizers raise, after the layers
\* were initialized.
ConstructConv(ls, batch_size, n_iter, loss_type, learning_rate, solver, momentum, beta_1, beta_2, epsilon, seed) ==
    LET c == [NoCfg EXCEPT !.learning_rate = learning_rate, !.batch_size = batch_size,
                           !.n_iter = n_iter, !.loss_type = loss_type,
                           !.solver = solver, !.momentum = momentum,
                           !.beta_1 = beta_1, !.beta_2 = beta_2,
                           !.epsilon = epsilon]
    IN
    /\ status = "unconstructed"
    /\ variant' = "conv"
    /\ IF ConfigError("conv", loss_type, "")
       THEN /\ status' = "raised"
            /\ cfg' = c
            /\ layers' = ls
            /\ optimizers' = optimizers
            /\ hist' = hist
       ELSE LET r == InitializeParametersConv(ls, optimizers, c, seed)
            IN  /\ status' = IF r.raised THEN "raised" ELSE "ok"
                /\ cfg' = IF r.raised THEN c ELSE [c EXCEPT !.n_layers = PyLen(ls)]
                /\ layers' = r.layers
                /\ optimizers' = r.optimizers
                /\ hist' = IF r.raised THEN hist
                           ELSE [hist EXCEPT !.n_init = 1,
                                             !.first_shapes =
                                                 Shapes(ParamsOf("conv", params, r.layers))]
    /\ ret' = [NoRet EXCEPT !.op = "__init__", !.raised = (status' = "raised")]
    /\ UNCHANGED <<params, encoder, train_loss_list, pc, i_iter, fitdata, batch, grads>>

(***************************************************************************)
(* The methods, as steps on a constructed network                          *)
(***************************************************************************)
\* a public call can start: the object exists and no fit is running
Ready == status = "ok" /\ pc = "idle" /\ hist.calls < MaxCalls

AllZero(gs) == \A l \in DOMAIN gs : \A k \in DOMAIN gs[l] :
                   \A i \in DOMAIN gs[l][k].data : gs[l][k].data[i] = 0
LayerGrads(ls) == [l \in DOMAIN ls |-> ls[l].grads]

\* whether _initialize_parameters raises (ConvolutionNet: in _initialize_optimizers)
InitializeParametersRaises(seed) ==
    variant = "conv" /\ InitializeParametersConv(layers, optimizers, cfg, seed).raised

\* the effect of _initialize_parameters on params / layers / optimizers
InitializeParametersEffect(seed) ==
    IF variant = "conv"
    THEN LET r == InitializeParametersConv(layers, optimizers, cfg, seed)
         IN  /\ layers' = r.layers
             /\ optimizers' = r.optimizers
             /\ params' = params
    ELSE /\ params' = InitializeParametersDense(cfg, seed)
         /\ UNCHANGED <<layers, optimizers>>

\* the effect of the gradient engine of the class on the given batch
GradientEffect(X, T_onehot, g) ==
    CASE variant = "sgd" ->
           LET r == NumericalGradientAll(params, cfg.n_layers, X, g)
           IN  /\ params' = r.params
               /\ ret' = [NoRet EXCEPT !.op = "numerical_gradient_all",
                                       !.raised = r.raised, !.value = r.grads,
                                       !.before = params,
                                       !.aux = NumericalGradientAllEvals(params,
                                                   cfg.n_layers, X)]
               /\ UNCHANGED <<layers, optimizers>>
      [] variant = "backprop" ->
           LET r == GradientBackpropagation(params, cfg.n_layers, XShape(X),
                                            TShape(T_onehot), g)
           IN  /\ ret' = [NoRet EXCEPT !.op = "gradient_backpropagation",
                                       !.raised = r.raised, !.value = r.grads,
                                       !.before = params,
                                       !.aux = GradientTraceDense(params, cfg.n_layers,
                                                   XShape(X), TShape(T_onehot))]
               /\ UNCHANGED <<params, layers, optimizers>>
      [] variant = "conv" ->
           LET r == GradientBackpropagationConv(layers, cfg.n_layers, XShape(X),
                                                TShape(T_onehot), g)
           IN  /\ layers' = r.layers
               /\ ret' = [NoRet EXCEPT !.op = "gradient_backpropagation",
                                       !.raised = r.raised, !.before = Params,
                                       !.aux = GradientTraceConv(layers, cfg.n_layers,
                                                   XShape(X), TShape(T_onehot))]
               /\ UNCHANGED <<params, optimizers>>

\* the effect of update_parameters; gs is the argument grads of the plain
\* networks (ConvolutionNet reads the gradients kept in its layers)
UpdateEffect(gs) ==
    IF variant = "conv"
    THEN LET r == UpdateParametersConv(layers, optimizers, cfg)
         IN  /\ layers' = r.layers
             /\ optimizers' = r.optimizers
             /\ params' = params
             /\ ret' = [NoRet EXCEPT !.op = "update_parameters", !.raised = r.raised,
                                     !.before = Params,
                                     !.aux = [zero |-> AllZero(LayerGrads(layers)),
                                              seen |-> r.seen,
                                              grads |-> LayerGrads(layers)]]
    ELSE /\ params' = UpdateParametersDense(params, cfg.n_layers, cfg.learning_rate, gs)
         /\ ret' = [NoRet EXCEPT !.op = "update_parameters", !.before = Params,
                                 !.aux = [zero |-> AllZero(gs), seen |-> EmptyList,
                                         grads |-> gs]]
         /\ UNCHANGED <<layers, optimizers>>

CountCall == [hist EXCEPT !.calls = hist.calls + 1]

\* _initialize_parameters called on its own
CallInitializeParameters(seed) ==
    /\ Ready
    /\ InitializeParametersEffect(seed)
    /\ hist' = IF InitializeParametersRaises(seed) THEN CountCall
               ELSE [CountCall EXCEPT !.n_init = hist.n_init + 1]
    /\ ret' = [NoRet EXCEPT !.op = "_initialize_parameters",
                            !.raised = InitializeParametersRaises(seed)]
    /\ UNCHANGED <<variant, status, cfg, encoder, train_loss_list, pc, i_iter,
                   fitdata, batch, grads>>

\* numerical_gradient_all(X, T) / gradient_backpropagation(X, T) called on its own
CallGradient(X, T, g) ==
    /\ Ready
    /\ GradientEffect(X, T.rows, g)
    /\ hist' = CountCall
    /\ UNCHANGED <<variant, status, cfg, encoder, train_loss_list, pc, i_iter,
                   fitdata, batch, grads>>

\* update_parameters(grads) called on its own, with a gradient set shaped
\* like the parameters
CallUpdateParameters(g) ==
    /\ Ready
    /\ UpdateEffect(GradsLike(params, g))
    /\ hist' = CountCall
    /\ UNCHANGED <<variant, status, cfg, encoder, train_loss_list, pc, i_iter,
                   fitdata, batch, grads>>

\* fit(X, T) up to the loop: re-initialize, one-hot encode T, reset the
\* list; a raising re-initialization ends the call there, and so does an
\* empty range(n_iter): no fit is under way then and fitdata holds nothing
FitBegin(X, T, seed) ==
    /\ Ready
    /\ InitializeParametersEffect(seed)
    /\ IF InitializeParametersRaises(seed)
       THEN /\ hist' = CountCall
            /\ pc' = "idle"
            /\ UNCHANGED <<encoder, fitdata, train_loss_list, i_iter>>
       ELSE /\ LET e == OneHotEncoding(encoder, T)
               IN  /\ encoder' = e.encoder
                   /\ fitdata' = IF 0 < cfg.n_iter THEN [X |-> X, T |-> e.T_onehot]
                                 ELSE NoBatch
                   /\ hist' = [CountCall EXCEPT
                                  !.n_init = hist.n_init + 1,
                                  !.fitted_1d = hist.fitted_1d \/ T.ndim = 1,
                                  !.fit_categories = IF T.ndim = 1 THEN e.encoder.categories
                                                     ELSE hist.fit_categories]
            /\ train_loss_list' = EmptyList
            /\ i_iter' = 0
            /\ pc' = IF 0 < cfg.n_iter THEN "select" ELSE "idle"
    /\ ret' = [NoRet EXCEPT !.op = "fit", !.raised = InitializeParametersRaises(seed)]
    /\ UNCHANGED <<variant, status, cfg, batch, grads>>

\* step 1 of an iteration: select_minibatch; mask is np.random.choice
FitSelectMinibatch(mask) ==
    /\ status = "ok" /\ pc = "select"
    /\ batch' = [X |-> [ids |-> [i \in DOMAIN mask |-> fitdata.X.ids[mask[i]]],
                        cols |-> fitdata.X.cols],
                 T |-> [i \in DOMAIN mask |-> fitdata.T[mask[i]]]]
    /\ pc' = "gradient"
    /\ ret' = [NoRet EXCEPT !.op = "select_minibatch"]
    /\ UNCHANGED <<variant, status, cfg, params, layers, optimizers, encoder,
                   train_loss_list, i_iter, fitdata, grads, hist>>

\* step 2: the gradient engine; an exception ends fit
FitGradient(g) ==
    /\ status = "ok" /\ pc = "gradient"
    /\ GradientEffect(batch.X, batch.T, g)
    /\ IF ret'.raised
       THEN pc' = "idle" /\ fitdata' = NoBatch /\ batch' = NoBatch /\ grads' = EmptyList
       ELSE pc' = "update" /\ grads' = ret'.value /\ UNCHANGED <<fitdata, batch>>
    /\ UNCHANGED <<variant, status, cfg, encoder, train_loss_list, i_iter, hist>>

\* step 3: update_parameters
FitUpdateParameters ==
    /\ status = "ok" /\ pc = "update"
    /\ UpdateEffect(grads)
    /\ pc' = "loss"
    /\ UNCHANGED <<variant, status, cfg, encoder, train_loss_list, i_iter,
                   fitdata, batch, grads, hist>>

\* the record of the loss, and the end of the iteration
FitRecordLoss ==
    /\ status = "ok" /\ pc = "loss"
    /\ train_loss_list' = PyAppend(train_loss_list, LossValue(Params, batch.X, batch.T))
    /\ i_iter' = i_iter + 1
    /\ IF i_iter + 1 < cfg.n_iter
       THEN pc' = "select" /\ UNCHANGED <<fitdata, batch, grads>>
       ELSE pc' = "idle" /\ fitdata' = NoBatch /\ batch' = NoBatch /\ grads' = EmptyList
    /\ ret' = [NoRet EXCEPT !.op = "_loss"]
    /\ UNCHANGED <<variant, status, cfg, params, layers, optimizers, encoder, hist>>

\* the shape of _predict_onehot(X) on the current parameters
PredictOnehot(X) ==
    IF variant = "conv" THEN PredictOnehotConv(layers, 0, XShape(X))
    ELSE [raised |-> PredictOnehotDense(params, cfg.n_layers, XShape(X)).raised,
          shape |-> PredictOnehotDense(params, cfg.n_layers, XShape(X)).shape]

\* predict(X); Y is what the forward pass returns
Predict(X) ==
    /\ Ready
    /\ LET fw == PredictOnehot(X)
       IN  IF fw.raised
           THEN ret' = [NoRet EXCEPT !.op = "predict", !.raised = TRUE]
           ELSE \E Y \in Outputs(fw.shape) :
                  ret' = IF OneHotEncodingReverseRaises(encoder, Y)
                         THEN [NoRet EXCEPT !.op = "predict", !.raised = TRUE, !.aux = Y]
                         ELSE [NoRet EXCEPT !.op = "predict", !.aux = Y,
                                            !.value = OneHotEncodingReverse(encoder, Y)]
    /\ hist' = CountCall
    /\ UNCHANGED <<variant, status, cfg, params, layers, optimizers, encoder,
                   train_loss_list, pc, i_iter, fitdata, batch, grads>>

\* accuracy(X_test, T_test)
Accuracy(X_test, T_test) ==
    /\ Ready
    /\ LET e  == OneHotEncoding(encoder, T_test)
           fw == PredictOnehot(X_test)
       IN  /\ encoder' = e.encoder
           /\ IF fw.raised
              THEN ret' = [NoRet EXCEPT !.op = "accuracy", !.raised = TRUE]
              ELSE \E Y_test \in Outputs(fw.shape) :
                     ret' = [NoRet EXCEPT !.op = "accuracy",
                                !.value = AccuracyValue(X_test, e.T_onehot, Y_test),
                                !.aux = [Y_test |-> Y_test, T_test |-> e.T_onehot]]
    /\ hist' = CountCall
    /\ UNCHANGED <<variant, status, cfg, params, layers, optimizers,
                   train_loss_list, pc, i_iter, fitdata, batch, grads>>

(***************************************************************************)
(* Specifications                                                          *)
(***************************************************************************)
Widths == 1..MaxWidth
AllTargets(r) == Targets1D(r) \cup UNION {Targets2D(r, c) : c \in Widths}

\* SpecInit: construction with every configuration, and re-initialization
ConstructDenseAny ==
    /\ status = "unconstructed"
    /\ \E v \in {"backprop", "sgd"}, input_size \in Widths, T \in AllTargets(1),
          hidden_size \in Widths, n_layers \in 1..MaxLayers,
          loss_type \in LossTypes, activation_function \in ActivationFunctions,
          seed \in Seeds :
           ConstructDense(v, input_size, T, hidden_size, n_layers, 1, 1,
                          loss_type, activation_function, seed)
ConstructConvAny ==
    /\ status = "unconstructed"
    /\ \E n \in 1..MaxConvLayers : \E ls \in LayerLists(Widths, n) :
         \E loss_type \in LossTypes, solver \in SolverInputs, seed \in Seeds :
           ConstructConv(ls, 1, 1, loss_type, 1, solver, DefaultMomentum,
                         DefaultBeta1, DefaultBeta2, DefaultEpsilon, seed)
Reinitialize == \E seed \in Seeds : CallInitializeParameters(seed)

NextInit == ConstructDenseAny \/ ConstructConvAny \/ Reinitialize
SpecInit == Init /\ [][NextInit]_vars

\* SpecGrad: the plain networks of every shape, and their gradient engines
\* called on batches of the documented shape
ConstructDenseShapes ==
    /\ status = "unconstructed"
    /\ \E v \in {"backprop", "sgd"}, input_size \in Widths, T \in AllTargets(1),
          hidden_size \in Widths, n_layers \in 1..MaxLayers :
           ConstructDense(v, input_size, T, hidden_size, n_layers, 1, 1,
                          "cross_entropy", "relu", 0)
Gradient ==
    /\ Ready
    /\ \E r \in 1..MaxRows, g \in GradVals :
         \E T \in Targets2D(r, OutputWidth) : CallGradient(DataX(r, InputWidth), T, g)

NextGrad == ConstructDenseShapes \/ Gradient
SpecGrad == Init /\ [][NextGrad]_vars

\* SpecTrain: one network of each class (ConvolutionNet with each solver),
\* trained by fit and driven through its gradient and update methods.  The
\* decay rates are passed explicitly as 1/2 and the gradient entries are
\* multiples of 32 units, so a velocity halved by every update of a run
\* stays on the grid.
TrainGradVals == {-32, 0, 32}
ConstructDenseTrain ==
    \E v \in {"backprop", "sgd"}, T \in Targets2D(1, MaxWidth) :
        ConstructDense(v, 1, T, MaxWidth, 2, 1, 2, "cross_entropy", "relu", 0)
ConstructConvTrain ==
    \E solver \in Solvers :
        ConstructConv([l \in 0..(MaxConvLayers-1) |->
                          NewLayer(IF l = 0 THEN 1 ELSE MaxWidth, MaxWidth)],
                      1, 2, "cross_entropy", 1, solver, Half, Half, Half, EpsilonH, 0)
FitStartTrain ==
    /\ Ready
    /\ FitBegin(DataX(1, InputWidth),
                CHOOSE T \in Targets2D(1, OutputWidth) : T.rows[0][0] = 1, 0)
FitSelect ==
    /\ pc = "select"
    /\ \E mask \in [0..(cfg.batch_size-1) -> DOMAIN fitdata.X.ids] :
          FitSelectMinibatch(mask)
FitGradientTrain == \E g \in TrainGradVals : FitGradient(g)
GradientTrain ==
    /\ Ready
    /\ \E g \in TrainGradVals :
          CallGradient(DataX(1, InputWidth),
                       CHOOSE T \in Targets2D(1, OutputWidth) : T.rows[0][0] = 1, g)
UpdateTrain == \E g \in TrainGradVals : CallUpdateParameters(g)

NextTrain ==
    \/ ConstructDenseTrain \/ ConstructConvTrain
    \/ FitStartTrain \/ FitSelect \/ FitGradientTrain \/ FitUpdateParameters
    \/ FitRecordLoss \/ GradientTrain \/ UpdateTrain
SpecTrain == Init /\ [][NextTrain]_vars

\* SpecUse: a two-class network of each class, fitted as its first call on
\* one sample per class, then used by accuracy (1-D test labels) and predict
\* in any order
ConstructDenseUse ==
    \E v \in {"backprop", "sgd"} :
        ConstructDense(v, 1, CHOOSE T \in Targets2D(1, 2) : TRUE, 1, 2, 1, 1,
                       "cross_entropy", "relu", 0)
ConstructConvUse ==
    ConstructConv([l \in 0..0 |-> NewLayer(1, 2)], 1, 1, "cross_entropy", 1, "sgd",
                  DefaultMomentum, DefaultBeta1, DefaultBeta2, DefaultEpsilon, 0)
FitStartUse ==
    /\ Ready /\ hist.calls = 0
    /\ \E T \in TargetsFor(OutputWidth, OutputWidth) :
          FitBegin(DataX(OutputWidth, InputWidth), T, 0)
FitGradientUse == FitGradient(2)
PredictUse ==
    /\ Ready
    /\ Predict(DataX(1, InputWidth))
AccuracyUse ==
    /\ Ready
    /\ \E T \in Targets1D(OutputWidth) : Accuracy(DataX(OutputWidth, InputWidth), T)

NextUse ==
    \/ ConstructDenseUse \/ ConstructConvUse
    \/ FitStartUse \/ FitSelect \/ FitGradientUse \/ FitUpdateParameters
    \/ FitRecordLoss \/ PredictUse \/ AccuracyUse
SpecUse == Init /\ [][NextUse]_vars

\* SpecAccuracy: accuracy of a new network of each class on every test set
\* of the bounds
AccuracyAny ==
    /\ Ready /\ hist.calls = 0
    /\ \E r \in 1..MaxRows : \E T \in Targets1D(r) \cup Targets2D(r, OutputWidth) :
          Accuracy(DataX(r, InputWidth), T)

NextAccuracy == ConstructDenseUse \/ ConstructConvUse \/ AccuracyAny
SpecAccuracy == Init /\ [][NextAccuracy]_vars

\* SpecOptim: two updates in a row on a one-layer network of each class and
\* solver, ConvolutionNet with the default decay rates and epsilon (0.9,
\* 0.9, 0.999, 1e-8) and with decay rates 1/2 and epsilon 1e-4.  An
\* update is among the first OptimCalls calls, which keeps the moment
\* estimates of the default rates within the integers of the checker.
OptimGradVals == {-4, -2, 2, 4}
OptimRates == {10, 20}
OptimHypers == {<<Half, Half, Half, EpsilonH>>,
                <<DefaultMomentum, DefaultBeta1, DefaultBeta2, DefaultEpsilon>>}
OptimCalls == 3
ConstructDenseOptim ==
    \E v \in {"backprop", "sgd"}, T \in Targets2D(1, 1) :
        ConstructDense(v, 1, T, 1, 2, 1, 1, "cross_entropy", "relu", 0)
ConstructConvOptim ==
    \E solver \in Solvers, learning_rate \in OptimRates, hp \in OptimHypers :
        ConstructConv([l \in 0..0 |-> NewLayer(1, 1)], 1, 1, "cross_entropy",
                      learning_rate, solver, hp[1], hp[2], hp[3], hp[4], 0)
GradientOptim ==
    /\ Ready /\ variant = "conv"
    /\ \E g \in OptimGradVals, T \in Targets2D(1, OutputWidth) :
          CallGradient(DataX(1, InputWidth), T, g)
UpdateOptim ==
    /\ hist.calls < OptimCalls
    /\ \E g \in OptimGradVals : CallUpdateParameters(g)

NextOptim == ConstructDenseOptim \/ ConstructConvOptim \/ GradientOptim \/ UpdateOptim
SpecOptim == Init /\ [][NextOptim]_vars

\* SpecCompare: the two gradient engines on one parameter set and one batch
\* of the small network of 2 inputs, one hidden layer of width 3, 2 outputs.
\* G[loss] is the value of the derivative of that loss at this point (every
\* entry the same): the analytic engine starts from softmax_loss_backward
\* whatever self.loss_type is, the numerical engine differences _loss, which
\* evaluates the configured loss.  Both engines are called; the parameters
\* afterwards are those numerical_gradient_all leaves (perturbed when a
\* _loss call of it raised, as on a batch of another width than the input).
DifferentiableLosses == {"cross_entropy", "squared_error"}
CompareGradients(X, T, G) ==
    /\ Ready /\ variant \in {"backprop", "sgd"}
    /\ LET rb == GradientBackpropagation(params, cfg.n_layers, XShape(X), TShape(T.rows),
                                         G["cross_entropy"])
           rs == NumericalGradientAll(params, cfg.n_layers, X, G[cfg.loss_type])
       IN  /\ ret' = [NoRet EXCEPT !.op = "compare_gradients",
                                   !.raised = rb.raised \/ rs.raised,
                                   !.value = [analytic |-> rb.grads,
                                              numerical |-> rs.grads],
                                   !.before = params]
           /\ params' = rs.params
    /\ hist' = CountCall
    /\ UNCHANGED <<variant, status, cfg, layers, optimizers, encoder,
                   train_loss_list, pc, i_iter, fitdata, batch, grads>>
ConstructDenseCompare ==
    \E v \in {"backprop", "sgd"}, loss_type \in DifferentiableLosses,
       activation_function \in {"sigmoid", "relu"}, seed \in Seeds :
        ConstructDense(v, 2, CHOOSE T \in Targets2D(1, 2) : TRUE, 3, 2, 1, 1,
                       loss_type, activation_function, seed)
CompareAny ==
    \E r \in 1..MaxRows, c \in 1..2 : \E T \in Targets2D(r, 2) :
        \E G \in [DifferentiableLosses -> GradVals] : CompareGradients(DataX(r, c), T, G)

NextCompare == ConstructDenseCompare \/ CompareAny
SpecCompare == Init /\ [][NextCompare]_vars

\* SpecFit: networks of one input, one class and every depth and n_iter of
\* the bounds, fitted again and again on one sample
IterCounts == 0..2
ConstructDenseFit ==
    \E v \in {"backprop", "sgd"}, n_layers \in 1..MaxLayers, n_iter \in IterCounts :
        ConstructDense(v, 1, CHOOSE T \in Targets2D(1, 1) : TRUE, 1, n_layers, 1, n_iter,
                       "cross_entropy", "relu", 0)
ConstructConvFit ==
    \E n \in 1..MaxConvLayers, n_iter \in IterCounts :
        ConstructConv([l \in 0..(n-1) |-> NewLayer(1, 1)], 1, n_iter, "cross_entropy",
                      1, "sgd", DefaultMomentum, DefaultBeta1, DefaultBeta2,
                      DefaultEpsilon, 0)
FitStartFit ==
    /\ Ready
    /\ FitBegin(DataX(1, InputWidth), CHOOSE T \in Targets2D(1, OutputWidth) : TRUE, 0)
FitGradientFit == \E g \in {0, 2} : FitGradient(g)

NextFit ==
    \/ ConstructDenseFit \/ ConstructConvFit
    \/ FitStartFit \/ FitSelect \/ FitGradientFit \/ FitUpdateParameters \/ FitRecordLoss
SpecFit == Init /\ [][NextFit]_vars

\* SpecBackward: the analytic gradient of networks of every depth of the
\* bounds (input and hidden layers of one width) on well-shaped batches
ConstructDenseBackward ==
    \E w \in Widths, n_layers \in 1..MaxLayers, activation_function \in {"sigmoid", "relu"} :
        ConstructDense("backprop", w, CHOOSE T \in Targets2D(1, 1) : TRUE, w, n_layers,
                       1, 1, "cross_entropy", activation_function, 0)
ConstructConvBackward ==
    \E w \in Widths, n \in 1..MaxConvLayers :
        ConstructConv([l \in 0..(n-1) |-> NewLayer(w, IF l = n - 1 THEN 1 ELSE w)],
                      1, 1, "cross_entropy", 1, "sgd", DefaultMomentum, DefaultBeta1,
                      DefaultBeta2, DefaultEpsilon, 0)
GradientBackward ==
    /\ Ready
    /\ \E r \in 1..MaxRows, g \in GradVals :
          CallGradient(DataX(r, InputWidth), CHOOSE T \in Targets2D(r, OutputWidth) : TRUE, g)

NextBackward == ConstructDenseBackward \/ ConstructConvBackward \/ GradientBackward
SpecBackward == Init /\ [][NextBackward]_vars

(***************************************************************************)
(* Properties                                                              *)
(***************************************************************************)
Dense == variant \in {"backprop", "sgd"}

\* C1: numerical_gradient_all leaves every params[l][key] with the value it
\* had before the call, entry for entry, whatever the network size and batch.
C1_NumericalGradientRestoresParams ==
    ret.op = "numerical_gradient_all" => params = ret.before

\* C2: for every n_layers >= 1 both gradient engines return a gradient set
\* with n_layers entries, each with exactly the keys W and b, each gradient
\* shaped like the parameter of the same layer and key.
C2_GradientSetAligned ==
    (Dense /\ ret.op \in {"numerical_gradient_all", "gradient_backpropagation"}) =>
        /\ ~ret.raised
        /\ DOMAIN ret.value = 0..(cfg.n_layers - 1)
        /\ \A l \in DOMAIN ret.value :
              /\ DOMAIN ret.value[l] = {"W", "b"}
              /\ \A k \in {"W", "b"} : ret.value[l][k].shape = ret.before[l][k].shape

\* C3: after _initialize_parameters of the plain networks, for every
\* n_layers >= 1 and layer l, W of layer l has as many rows as the previous
\* layer's output is wide (input_size for layer 0) and as many columns as
\* the layer's bias is long, and the last bias has length output_size.
C3_ParameterShapes ==
    (Dense /\ status = "ok") =>
        /\ \A l \in DOMAIN params :
              /\ params[l]["W"].shape[1] =
                    (IF l = 0 THEN cfg.input_size ELSE params[l-1]["b"].shape[1])
              /\ params[l]["W"].shape[2] = params[l]["b"].shape[1]
        /\ params[cfg.n_layers - 1]["b"].shape[1] = cfg.output_size

\* C7: a loss_type outside {cross_entropy, squared_error} (all classes) or
\* an activation_function outside {sigmoid, relu} (plain networks) makes
\* __init__ raise before any parameter set is allocated.
C7_InvalidConfigurationRaises ==
    (/\ status # "unconstructed"
     /\ \/ cfg.loss_type \notin {"cross_entropy", "squared_error"}
        \/ Dense /\ cfg.activation_function \notin {"sigmoid", "relu"}) =>
        /\ status = "raised"
        /\ params = NoParams
        /\ optimizers = EmptyList
        /\ \A l \in DOMAIN layers : layers[l].params = EmptyDict
        /\ hist.n_init = 0
C7_Witness ==
    /\ status = "raised" /\ variant = "sgd"
    /\ cfg.loss_type = "squared_error" /\ cfg.activation_function = "tanh"

\* C8: a ConvolutionNet whose layer l+1 declares an input shape other than
\* the output shape of layer l fails in __init__: no constructed network
\* carries such a mismatch.
C8_ShapeMismatchRaises ==
    (variant = "conv" /\ status = "ok") =>
        \A l \in DOMAIN layers :
            l > 0 => layers[l].input_shape = layers[l-1].output_shape

\* C9: after any number k >= 1 of _initialize_parameters calls the network
\* holds one parameter set per layer, of the shapes the first call gave and
\* with all-zero biases, and (ConvolutionNet) one optimizer per layer, each
\* freshly initialized from its layer's parameters.
C9_InitializeIdempotent ==
    (status = "ok" /\ ret.op \in {"__init__", "_initialize_parameters"}) =>
        /\ DOMAIN Params = 0..(NLayers - 1)
        /\ Shapes(Params) = hist.first_shapes
        /\ \A l \in DOMAIN Params :
              /\ DOMAIN Params[l] = {"W", "b"}
              /\ Params[l]["b"] = zeros(Params[l]["b"].shape)
        /\ variant = "conv" =>
              /\ DOMAIN optimizers = DOMAIN layers
              /\ \A l \in DOMAIN optimizers :
                    /\ optimizers[l].kind = cfg.solver
                    /\ optimizers[l].t = 0
                    /\ DOMAIN optimizers[l].acc = AccumulatorNames(cfg.solver)
                    /\ \A a \in DOMAIN optimizers[l].acc :
                          /\ DOMAIN optimizers[l].acc[a] = DOMAIN layers[l].params
                          /\ \A k \in DOMAIN layers[l].params :
                                optimizers[l].acc[a][k] = QZerosLike(layers[l].params[k])
C9_Witness ==
    /\ variant = "conv" /\ status = "ok" /\ ret.op = "_initialize_parameters"
    /\ hist.n_init >= 3 /\ cfg.solver = "adam" /\ PyLen(layers) = MaxConvLayers

\* the accumulators that keep a parameter moving under a zero gradient: the
\* velocity of momentum, the first moment of adam
C4_Moving(kind) == IF kind = "momentum" THEN {"v"} ELSE IF kind = "adam" THEN {"m"} ELSE {}
C4_EntryAtRest(opts, l, k, i) ==
    \A a \in C4_Moving(opts[l].kind) : opts[l].acc[a][k].data[i] = QZero
C4_AtRest(opts) ==
    \A l \in DOMAIN opts : \A a \in C4_Moving(opts[l].kind) :
        \A k \in DOMAIN opts[l].acc[a] :
            \A i \in DOMAIN opts[l].acc[a][k].data : C4_EntryAtRest(opts, l, k, i)
C4_ZeroUpdateReturned == ret.op = "update_parameters" /\ ~ret.raised /\ ret.aux.zero

C5_OptimizerStatePersists ==
    [][(variant = "conv" /\ status = "ok") =>
          /\ (hist'.n_init # hist.n_init => (ret'.op = "fit" /\ i_iter' = 0))
          /\ ((ret'.op # "update_parameters" /\ hist'.n_init = hist.n_init)
                 => optimizers' = optimizers)
          /\ ((ret'.op = "update_parameters" /\ ~ret'.raised) =>
                 /\ DOMAIN optimizers' = DOMAIN optimizers
                 /\ \A l \in DOMAIN optimizers :
                       optimizers'[l] =
                           OptimizerUpdate(optimizers[l], layers[l].params,
                                           layers[l].grads).opt)
          /\ ((ret'.op = "update_parameters" /\ ret'.raised) =>
                 /\ DOMAIN optimizers' = DOMAIN optimizers
                 /\ \A l \in DOMAIN optimizers :
                       optimizers'[l].acc = optimizers[l].acc)]_vars
\* the update of the second iteration of a fit found the velocity the first left
C5_Witness ==
    /\ variant = "conv" /\ cfg.solver = "momentum" /\ pc = "loss" /\ i_iter = 1
    /\ ret.op = "update_parameters" /\ ~ret.raised
    /\ ~C4_AtRest(ret.aux.seen)
    /\ optimizers # ret.aux.seen

\* C6 as stated: after a fit with 1-D labels, every predict returns, for each
\* row, the category that fit gave the row's arg-max class index, whatever
\* accuracy calls came in between
C6_PredictDecodesWithFitCategories ==
    (ret.op = "predict" /\ hist.fitted_1d) =>
        /\ ~ret.raised
        /\ \A r \in DOMAIN ret.value :
              ret.value[r] = hist.fit_categories[argmax(ret.aux[r])]

\* C10: accuracy of a non-empty batch is the number of rows whose predicted
\* and target arg-max agree over the number of rows: 1 when all rows agree,
\* 0 when none does
C10_AccuracyIsMatchFraction ==
    (ret.op = "accuracy" /\ ~ret.raised) =>
        LET rows    == DOMAIN ret.aux.Y_test
            matches == {r \in rows : argmax(ret.aux.Y_test[r]) = argmax(ret.aux.T_test[r])}
        IN  /\ ret.value.den = Cardinality(rows) /\ ret.value.den > 0
            /\ ret.value.num = Cardinality(matches)
            /\ (matches = rows => ret.value.num = ret.value.den)
            /\ (matches = {} => ret.value.num = 0)
\* two rows of different classes, both predicted right
C10_Witness ==
    /\ ret.op = "accuracy" /\ ~ret.raised
    /\ ret.value = [num |-> 2, den |-> 2]
    /\ argmax(ret.aux.T_test[0]) # argmax(ret.aux.T_test[1])

\* the change of the parameters between two parameter sets of one shape
C11_Delta(after, before) ==
    [l \in DOMAIN after |-> [k \in DOMAIN after[l] |->
        [i \in DOMAIN after[l][k].data |-> after[l][k].data[i] - before[l][k].data[i]]]]
C11_Fresh(opts) ==
    \A l \in DOMAIN opts :
        /\ opts[l].t = 0
        /\ \A a \in DOMAIN opts[l].acc : \A k \in DOMAIN opts[l].acc[a] :
              \A i \in DOMAIN opts[l].acc[a][k].data : opts[l].acc[a][k].data[i] = QZero
C11_NonZero(gs) ==
    \A l \in DOMAIN gs : \A k \in DOMAIN gs[l] :
        \A i \in DOMAIN gs[l][k].data : gs[l][k].data[i] # 0
\* this step is the second of two updates in a row with one non-zero gradient,
\* the first of them on fresh optimizer state
C11_SecondOfTwo ==
    /\ ret.op = "update_parameters" /\ ~ret.raised
    /\ ret'.op = "update_parameters" /\ ~ret'.raised
    /\ ret'.aux.grads = ret.aux.grads /\ C11_NonZero(ret.aux.grads)
    /\ C11_Fresh(ret.aux.seen)
C11_Plain == variant \in {"backprop", "sgd"} \/ (variant = "conv" /\ cfg.solver = "sgd")
\* the moment estimates after t updates with the gradient g from fresh state:
\* m = (1 - beta_1^t) g and v = (1 - beta_2^t) g*g
C11_MomentsAfter(opt, k, i, g, t) ==
    /\ opt.t = t
    /\ opt.acc["m"][k].data[i] = QMul(OneMinusPow(opt.beta_1, t), QInt(g))
    /\ opt.acc["v"][k].data[i] = QMul(OneMinusPow(opt.beta_2, t), QInt(g * g))
\* lr * g / (|g| + epsilon), in units of h
C11_UnitStep(opt, g) ==
    RoundScaled(QDiv(QInt(opt.lr * g), QAdd(QInt(Abs(g)), opt.epsilon)), UnitDigits)

C12_EnginesAgree ==
    (ret.op = "compare_gradients" /\ ~ret.raised) =>
        \A l \in DOMAIN ret.value.analytic : \A k \in DOMAIN ret.value.analytic[l] :
            \A i \in DOMAIN ret.value.analytic[l][k].data :
                LET d == ret.value.analytic[l][k].data[i] - ret.value.numerical[l][k].data[i]
                IN  d <= 1 /\ -d <= 1

\* one step of fit, as the claim orders them
C13_Step ==
    /\ (pc = "idle" /\ pc' # "idle" =>
           /\ ret'.op = "fit" /\ hist'.n_init = hist.n_init + 1
           /\ train_loss_list' = EmptyList /\ i_iter' = 0)
    /\ (pc = "select" =>
           pc' = "gradient" /\ ret'.op = "select_minibatch" /\ Params' = Params)
    /\ (pc = "gradient" =>
           /\ pc' = "update" /\ ~ret'.raised
           /\ ret'.op \in {"numerical_gradient_all", "gradient_backpropagation"}
           /\ Params' = Params)
    /\ (pc = "update" => pc' = "loss" /\ ret'.op = "update_parameters")
    /\ (pc = "loss" =>
           /\ Params' = Params /\ i_iter' = i_iter + 1
           /\ train_loss_list' = PyAppend(train_loss_list,
                                          LossValue(Params, batch.X, batch.T))
           /\ pc' = IF i_iter' < cfg.n_iter THEN "select" ELSE "idle")
\* a fit call has been made and none is running
C13_AfterFit == status = "ok" /\ pc = "idle" /\ hist.n_init >= 2

\* C13 as stated: every fit re-initializes once, resets train_loss_list and
\* runs n_iter iterations of select, gradient, update, record (the loss of
\* the minibatch under the updated parameters), so that after any number of
\* fit calls train_loss_list has n_iter entries and n_iter updates were made
C13_FitRunsNIterIterations ==
    /\ [](C13_AfterFit => PyLen(train_loss_list) = cfg.n_iter /\ i_iter = cfg.n_iter)
    /\ [][C13_Step]_vars

\* C14 as stated: one analytic gradient computation calls forward on the
\* layers first to last, then makes the backward step of every layer once,
\* last to first down to layer 0, each with the gradient of the step of the
\* layer after it (the output layer with prediction and target); no layer
\* has a second forward call between its forward call and its backward step
C14_ForwardThenBackwardOnce ==
    ret.op = "gradient_backpropagation" =>
        /\ PyLen(ret.aux) = 2 * NLayers
        /\ \A l \in 0..(NLayers-1) :
              /\ ret.aux[l] = Event("forward", l, l - 1)
              /\ ret.aux[2 * NLayers - 1 - l] = Event("backward", l, l + 1)
              /\ Cardinality({p \in DOMAIN ret.aux :
                                 ret.aux[p].kind = "forward" /\ ret.aux[p].layer = l}) = 1

\* the scalar components of a parameter set, and those in which two sets differ
C15_Components(ps) ==
    {<<l, k, i>> : l \in DOMAIN ps, k \in {"W", "b"}, i \in 0..(MaxWidth * MaxWidth)}
        \cap {c \in (DOMAIN ps) \X {"W", "b"} \X (0..(MaxWidth * MaxWidth)) :
                 c[3] \in DOMAIN ps[c[1]][c[2]].data}
C15_Perturbed(ps, c, d) ==
    [ps EXCEPT ![c[1]][c[2]].data[c[3]] = ps[c[1]][c[2]].data[c[3]] + d]

\* C15 as stated: every loss evaluation of numerical_gradient_all is made on
\* the parameters of the start of the call with one scalar component moved
\* by +h or -h, and each component is evaluated twice, at +h and then at -h
C15_OneComponentPerturbed ==
    ret.op = "numerical_gradient_all" =>
        /\ \A p \in DOMAIN ret.aux :
              \E c \in C15_Components(ret.before) :
                  \E d \in {h, -h} : ret.aux[p] = C15_Perturbed(ret.before, c, d)
        /\ \A c \in C15_Components(ret.before) :
              /\ Cardinality({p \in DOMAIN ret.aux :
                                 ret.aux[p] = C15_Perturbed(ret.before, c, h)}) = 1
              /\ Cardinality({p \in DOMAIN ret.aux :
                                 ret.aux[p] = C15_Perturbed(ret.before, c, -h)}) = 1
              /\ \E p \in DOMAIN ret.aux :
                    /\ ret.aux[p] = C15_Perturbed(ret.before, c, h)
                    /\ p + 1 \in DOMAIN ret.aux
                    /\ ret.aux[p + 1] = C15_Perturbed(ret.before, c, -h)

\* C16: after every _initialize_parameters of a ConvolutionNet, layer 0 was
\* initialized with its own input_shape and every later layer with the
\* output_shape its predecessor has now, so the widths of adjacent layers
\* (and of their weights) chain, however often the network is re-initialized
C16_AdjacentShapesChain ==
    (variant = "conv" /\ status = "ok") =>
        /\ layers[0].initialized_with = layers[0].input_shape
        /\ \A l \in DOMAIN layers :
              /\ layers[l].params["W"].shape[1] = layers[l].initialized_with
              /\ (l + 1 \in DOMAIN layers =>
                    /\ layers[l+1].initialized_with = layers[l].output_shape
                    /\ layers[l+1].params["W"].shape[1] = layers[l].params["W"].shape[2])
\* a re-initialized network whose second layer was declared with another
\* input_shape than the first layer's output
C16_Witness ==
    /\ variant = "conv" /\ status = "ok" /\ PyLen(layers) >= 2 /\ hist.n_init >= 2
    /\ ret.op = "_initialize_parameters"
    /\ layers[1].input_shape # layers[0].output_shape
    /\ layers[1].initialized_with = layers[0].output_shape
====
